---- MODULE Spec2Model ----
(***************************************************************************)
(* Creata Wallet extension: the background session state (unlock / lock /  *)
(* inactivity timeout, runtime messages, content-script port), the secure  *)
(* record store over chrome.storage.local, the keyring and the popup       *)
(* screens that drive them.                                                *)
(***************************************************************************)
EXTENDS Integers, Sequences, FiniteSets, TLC

VARIABLES
  state,       \* background: { isUnlocked, network, lastActivity }
  now,         \* Date.now(), in ms since the background script started
  nextCheck,   \* time at which the setInterval callback is next due
  bgLog,       \* last line the background wrote to the console
  response,    \* last value passed to sendResponse by the runtime listener
  portIn,      \* messages the content script posted on its port, not yet handled
  portOut,     \* messages posted by the background on the content-script port
  storage,     \* chrome.storage.local
  popup,       \* App state: open, loading, authenticated, currentPage
  attempts,    \* Login: failed unlock attempts
  error,       \* error shown by the mounted popup component
  create,      \* CreateWallet: step, mnemonic shown, password entered
  apiResult,   \* outcome of the last keyring call made by a caller outside the popup
  pageRequests, \* web page: the promises made by window.creataWallet, in call order
  windowQueue, \* web page: window 'message' events posted and not yet dispatched
  loaded       \* history: loadWallet(password) succeeded since the wallet was last locked

vars == <<state, now, nextCheck, bgLog, response, portIn, portOut, storage, popup,
          attempts, error, create, apiResult, pageRequests, windowQueue, loaded>>

popupVars == <<storage, popup, attempts, error, create, apiResult>>

pageVars == <<pageRequests, windowQueue>>

----------------------------------------------------------------------------
(* Bounds of the model *)

\* number of 60 s check periods the clock may run through
MaxIntervals == 32
\* number of 1 ms steps the clock may take right after a check period starts
MaxFine == 1
\* replies that may wait on the port before the content script takes them
MaxPortOut == 1
\* requests that may wait on the port before the background handles them
MaxPortIn == 1
\* calls of window.creataWallet a page may make
MaxRequests == 1
\* window messages that may wait to be dispatched
MaxWindow == 1

----------------------------------------------------------------------------
(* Background script: src/background/index.js *)

SESSION_TIMEOUT == 30 * 60 * 1000

CHECK_INTERVAL == 60000

Networks == {"mainnet", "testnet"}

\* message.network of a SWITCH_NETWORK message; "none" is a missing field
NetworkArgs == {"mainnet", "testnet", "ropsten", "none"}

RuntimeTypes == {"GET_STATE", "UNLOCK_WALLET", "LOCK_WALLET", "SWITCH_NETWORK",
                 "CONNECT_SITE", "PING"}

PortTypes == {"REQUEST_ACCOUNTS", "SEND_TRANSACTION", "SIGN_MESSAGE"}

NoResponse == [kind |-> "none"]

InitState == [isUnlocked |-> FALSE, network |-> "mainnet", lastActivity |-> 0]

\* the switch of the runtime listener: the new state and the value sent back
HandleUnlock(st) == [st EXCEPT !.isUnlocked = TRUE]

HandleLock(st) == [st EXCEPT !.isUnlocked = FALSE]

ValidNetwork(n) == n = "mainnet" \/ n = "testnet"

HandleSwitchMutantAny(st, n) == [st EXCEPT !.network = n]
HandleSwitch(st, n) == IF ValidNetwork(n) THEN [st EXCEPT !.network = n] ELSE st

Touch(st, t) == [st EXCEPT !.lastActivity = t]

DispatchMutantConnectUnlocks(st, type, n) ==
  CASE type = "UNLOCK_WALLET"  -> HandleUnlock(st)
    [] type = "LOCK_WALLET"    -> HandleLock(st)
    [] type = "SWITCH_NETWORK" -> HandleSwitch(st, n)
    [] type = "CONNECT_SITE"   -> HandleUnlock(st)
    [] OTHER                   -> st
Dispatch(st, type, n) ==
  CASE type = "UNLOCK_WALLET"  -> HandleUnlock(st)
    [] type = "LOCK_WALLET"    -> HandleLock(st)
    [] type = "SWITCH_NETWORK" -> HandleSwitch(st, n)
    [] OTHER                   -> st

Reply(st, type, n) ==
  CASE type = "GET_STATE"      -> [kind |-> "state", success |-> TRUE, state |-> st]
    [] type = "UNLOCK_WALLET"  -> [kind |-> "plain", success |-> TRUE]
    [] type = "LOCK_WALLET"    -> [kind |-> "plain", success |-> TRUE]
    [] type = "SWITCH_NETWORK" ->
         IF ValidNetwork(n) THEN [kind |-> "plain", success |-> TRUE]
         ELSE [kind |-> "error", success |-> FALSE, error |-> "Invalid network"]
    [] type = "CONNECT_SITE"   ->
         [kind |-> "address", success |-> TRUE, address |-> "creata12345..."]
    [] OTHER ->
         [kind |-> "error", success |-> FALSE, error |-> "Unknown message type"]

\* chrome.runtime.onMessage listener
OnMessage(type, n) ==
  /\ response = NoResponse
  /\ state' = Dispatch(Touch(state, now), type, n)
  /\ response' = Reply(Touch(state, now), type, n)
  /\ loaded' = IF type = "LOCK_WALLET" THEN FALSE ELSE loaded
  /\ UNCHANGED <<now, nextCheck, bgLog, portIn, portOut, popupVars, pageVars>>

\* the sender's callback takes the reply; it does so before the background's next event
ResponseDelivered ==
  /\ response # NoResponse
  /\ response' = NoResponse
  /\ UNCHANGED <<state, now, nextCheck, bgLog, portIn, portOut, loaded, popupVars, pageVars>>

\* the test of the setInterval callback
SessionExpiredMutantNever(st, t) == FALSE
SessionExpiredMutantAtThreshold(st, t) ==
  st.isUnlocked /\ (t - st.lastActivity >= SESSION_TIMEOUT)
SessionExpired(st, t) == st.isUnlocked /\ (t - st.lastActivity > SESSION_TIMEOUT)

\* setInterval(..., 60000) callback
PeriodicCheck ==
  /\ response = NoResponse
  /\ now = nextCheck
  /\ nextCheck < MaxIntervals * CHECK_INTERVAL
  /\ nextCheck' = nextCheck + CHECK_INTERVAL
  /\ IF SessionExpired(state, now)
       THEN /\ state' = [state EXCEPT !.isUnlocked = FALSE]
            /\ bgLog' = "Session timeout, locking wallet"
            /\ loaded' = FALSE
       ELSE UNCHANGED <<state, bgLog, loaded>>
  /\ UNCHANGED <<now, response, portIn, portOut, popupVars, pageVars>>

AccountsResponse == [type |-> "ACCOUNTS_RESPONSE", accounts |-> <<"creata12345...">>]

LockedError == [type |-> "ERROR", error |-> "Wallet is locked"]

\* what the port listener posts for a message
PortRepliesMutantAlways(st, type) ==
  IF type = "REQUEST_ACCOUNTS" THEN <<AccountsResponse>> ELSE <<>>
PortReplies(st, type) ==
  IF type = "REQUEST_ACCOUNTS"
    THEN IF st.isUnlocked THEN <<AccountsResponse>> ELSE <<LockedError>>
    ELSE <<>>

\* injected provider: the timeout of each method's setTimeout, in ms
RequestTimeouts ==
  [requestAccounts |-> 30000, sendTransaction |-> 60000, signMessage |-> 30000]

ProviderMethods == DOMAIN RequestTimeouts

\* the message.type each method posts
RequestType(method) ==
  CASE method = "requestAccounts" -> "REQUEST_ACCOUNTS"
    [] method = "sendTransaction" -> "SEND_TRANSACTION"
    [] method = "signMessage"     -> "SIGN_MESSAGE"

\* Date.now().toString()
RequestId(t) == [str |-> t]

\* the field of a response a method resolves with; undefined when it is missing
ResultField(method) ==
  CASE method = "requestAccounts" -> "accounts"
    [] method = "sendTransaction" -> "txHash"
    [] method = "signMessage"     -> "signature"

Undefined == [kind |-> "undefined"]

\* message[f], as the value a promise is resolved with
Field(message, f) ==
  IF f \in DOMAIN message THEN [kind |-> "value", value |-> message[f]] ELSE Undefined

\* new Error(text), the value a promise is rejected with
ErrorOf(text) == [kind |-> "error", message |-> text]

\* data.message.error is truthy
HasError(message) == "error" \in DOMAIN message /\ message.error # ""

\* handleResponse: data.type === 'CREATA_WALLET_RESPONSE' && data.message.requestId === requestId
Matches(r, data) ==
  /\ data.type = "CREATA_WALLET_RESPONSE"
  /\ Field(data.message, "requestId") = [kind |-> "value", value |-> r.requestId]

\* a promise settles once: resolve and reject on a settled promise do nothing
Settle(r, status, value) ==
  IF r.status = "pending" THEN [r EXCEPT !.status = status, !.value = value] ELSE r

\* handleResponse of one request for one window message
HandleResponse(r, data) ==
  IF r.listening /\ Matches(r, data)
    THEN IF HasError(data.message)
           THEN Settle([r EXCEPT !.listening = FALSE], "rejected",
                       ErrorOf(data.message.error))
           ELSE Settle([r EXCEPT !.listening = FALSE], "resolved",
                       Field(data.message, ResultField(r.method)))
    ELSE r

\* the setTimeout callback of one request
TimerFiresMutantOverride(r) ==
  [r EXCEPT !.listening = FALSE, !.timer = FALSE, !.status = "rejected",
            !.value = ErrorOf("Request timeout")]
TimerFires(r) ==
  Settle([r EXCEPT !.listening = FALSE, !.timer = FALSE], "rejected",
         ErrorOf("Request timeout"))

\* window.creataWallet.requestAccounts / sendTransaction / signMessage
ProviderRequest(method) ==
  /\ Len(pageRequests) < MaxRequests
  /\ Len(windowQueue) < MaxWindow
  /\ pageRequests' = Append(pageRequests,
        [method |-> method, requestId |-> RequestId(now), status |-> "pending",
         value |-> Undefined, listening |-> TRUE, timer |-> TRUE,
         due |-> now + RequestTimeouts[method]])
  /\ windowQueue' = Append(windowQueue,
        [type |-> "CREATA_WALLET_REQUEST",
         message |-> [type |-> RequestType(method), requestId |-> RequestId(now)]])
  /\ UNCHANGED <<state, now, nextCheck, bgLog, response, portIn, portOut, loaded, popupVars>>

\* responses any script of the page may post to the window for a pending request
ForgedResponses ==
  { [type |-> "CREATA_WALLET_RESPONSE",
     message |-> [requestId |-> pageRequests[i].requestId, accounts |-> <<"creata1forged">>]]
      : i \in 1..Len(pageRequests) }

\* another script of the page calls window.postMessage
PageScriptPost(data) ==
  /\ Len(windowQueue) < MaxWindow
  /\ windowQueue' = Append(windowQueue, data)
  /\ UNCHANGED <<state, now, nextCheck, bgLog, response, portIn, portOut, loaded, popupVars,
                 pageRequests>>

\* content script: a CREATA_WALLET_REQUEST window message is forwarded on the port
ContentScriptPost ==
  /\ windowQueue # <<>>
  /\ Head(windowQueue).type = "CREATA_WALLET_REQUEST"
  /\ Len(portIn) < MaxPortIn
  /\ portIn' = Append(portIn, Head(windowQueue).message)
  /\ windowQueue' = Tail(windowQueue)
  /\ UNCHANGED <<state, now, nextCheck, bgLog, response, portOut, loaded, popupVars,
                 pageRequests>>

\* page: a CREATA_WALLET_RESPONSE window message runs every handleResponse listener
PageHandleResponse ==
  /\ windowQueue # <<>>
  /\ Head(windowQueue).type = "CREATA_WALLET_RESPONSE"
  /\ pageRequests' = [i \in 1..Len(pageRequests) |->
                        HandleResponse(pageRequests[i], Head(windowQueue))]
  /\ windowQueue' = Tail(windowQueue)
  /\ UNCHANGED <<state, now, nextCheck, bgLog, response, portIn, portOut, loaded, popupVars>>

\* page: the setTimeout callback of request i
RequestTimeout(i) ==
  /\ i \in 1..Len(pageRequests)
  /\ pageRequests[i].timer
  /\ now >= pageRequests[i].due
  /\ pageRequests' = [pageRequests EXCEPT ![i] = TimerFires(pageRequests[i])]
  /\ UNCHANGED <<state, now, nextCheck, bgLog, response, portIn, portOut, loaded, popupVars,
                 windowQueue>>

\* port.onMessage listener of the port named 'content-script'
OnPortMessage ==
  /\ response = NoResponse
  /\ portIn # <<>>
  /\ Len(portOut) + Len(PortReplies(state, Head(portIn).type)) <= MaxPortOut
  /\ portIn' = Tail(portIn)
  /\ bgLog' = "Message from content script:"
  /\ portOut' = portOut \o PortReplies(state, Head(portIn).type)
  /\ UNCHANGED <<state, now, nextCheck, response, loaded, popupVars, pageVars>>

\* content script: port.onMessage forwards the head of the port to the page
ContentScriptForward ==
  /\ portOut # <<>>
  /\ Len(windowQueue) < MaxWindow
  /\ portOut' = Tail(portOut)
  /\ windowQueue' = Append(windowQueue,
        [type |-> "CREATA_WALLET_RESPONSE", message |-> Head(portOut)])
  /\ UNCHANGED <<state, now, nextCheck, bgLog, response, portIn, loaded, popupVars,
                 pageRequests>>

\* passage of time; the interval callback and the page's timers run when they are due
TickSteps == {1, CHECK_INTERVAL - 1}

Tick(d) ==
  /\ response = NoResponse
  /\ now + d <= nextCheck
  /\ \A i \in 1..Len(pageRequests) :
       pageRequests[i].timer => now + d <= pageRequests[i].due
  /\ d = 1 => (now % CHECK_INTERVAL < MaxFine \/ now + 1 = nextCheck)
  /\ now' = now + d
  /\ UNCHANGED <<state, nextCheck, bgLog, response, portIn, portOut, loaded, popupVars, pageVars>>

----------------------------------------------------------------------------
(* Secure record store: src/lib/storage/index.js *)

WALLET_KEY == "creata_wallet"

ACCOUNTS_KEY == "creata_accounts"

CURRENT_ACCOUNT_KEY == "creata_current_account"

StorageKeys == {WALLET_KEY, ACCOUNTS_KEY, CURRENT_ACCOUNT_KEY,
                "creata_active_network", "creata_session_timeout", "creata_session"}

Absent == [kind |-> "absent"]

\* a value handed to chrome.storage.local.set as it is
Raw(v) == [kind |-> "raw", value |-> v]

JSONStringify(v) == [kind |-> "json", value |-> v]

\* JSON.parse: only JSON text parses; base64 ciphertext is a SyntaxError
JSONParses(text) == text.kind = "json"

JSONParse(text) == text.value

\* PBKDF2 + AES-GCM: the blob opens under the password that made it and no other
EncryptMutantFixedKey(data, password) == [kind |-> "enc", pw |-> "", text |-> data]
Encrypt(data, password) == [kind |-> "enc", pw |-> password, text |-> data]

DecryptsMutantAnyPassword(blob, password) == blob.kind = "enc"
Decrypts(blob, password) == blob.kind = "enc" /\ blob.pw = password

Decrypt(blob, password) == blob.text

EmptyStorage == [k \in StorageKeys |-> Absent]

\* a stored ciphertext whose bytes were altered: non-empty, opens under no password
Corrupted == [kind |-> "corrupt"]

Ok(v) == [status |-> "ok", value |-> v]

Err(msg) == [status |-> "error", error |-> msg]

\* a promise that neither resolves nor rejects
Pending == [status |-> "pending"]

Null == [kind |-> "null"]

\* what saveData hands to chrome.storage.local.set
StoredFormMutantPlain(value, secure, password) == JSONStringify(value)
StoredForm(value, secure, password) ==
  IF secure THEN Encrypt(JSONStringify(value), password) ELSE JSONStringify(value)

\* saveData(key, value, secure, password); setFails: chrome.runtime.lastError is set
SaveDataMutantNoCheck(st, key, value, secure, password, setFails) ==
  IF setFails
    THEN [status |-> "error", error |-> "lastError", storage |-> st]
  ELSE [status |-> "ok",
        storage |-> [st EXCEPT ![key] = StoredForm(value, secure, password)]]
SaveData(st, key, value, secure, password, setFails) ==
  IF secure /\ password = ""
    THEN [status |-> "error", error |-> "Password is required for secure storage",
          storage |-> st]
  ELSE IF setFails
    THEN [status |-> "error", error |-> "lastError", storage |-> st]
  ELSE [status |-> "ok",
        storage |-> [st EXCEPT ![key] = StoredForm(value, secure, password)]]

\* getData(key, secure, password)
GetDataMutantOracle(st, key, secure, password) ==
  LET data == st[key] IN
  IF data = Absent THEN Ok(Null)
  ELSE IF secure
    THEN IF password = ""
           THEN Err("Password is required for secure retrieval")
         ELSE IF data.kind # "enc" THEN Err("Corrupted data")
         ELSE IF Decrypts(data, password) /\ JSONParses(Decrypt(data, password))
           THEN Ok(JSONParse(Decrypt(data, password)))
         ELSE Err("Failed to decrypt data. Incorrect password or corrupted data.")
  ELSE IF JSONParses(data) THEN Ok(JSONParse(data))
  ELSE Pending
GetData(st, key, secure, password) ==
  LET data == st[key] IN
  IF data = Absent THEN Ok(Null)
  ELSE IF secure
    THEN IF password = ""
           THEN Err("Password is required for secure retrieval")
         ELSE IF Decrypts(data, password) /\ JSONParses(Decrypt(data, password))
           THEN Ok(JSONParse(Decrypt(data, password)))
         ELSE Err("Failed to decrypt data. Incorrect password or corrupted data.")
  ELSE IF JSONParses(data) THEN Ok(JSONParse(data))
  ELSE Pending

RemoveData(st, key) == [st EXCEPT ![key] = Absent]

ClearAllData(st) == EmptyStorage

----------------------------------------------------------------------------
(* Keyring: src/lib/keyring/index.js *)

Rep(w, n) == [i \in 1..n |-> w]

\* recovery phrases DirectSecp256k1HdWallet.generate(24) may draw
Gen1 == Rep("abandon", 23) \o <<"art">>

Gen2 == Rep("zoo", 23) \o <<"vote">>

GeneratedMnemonics == {Gen1, Gen2}

\* 12-word phrases a user may import
Imp1 == Rep("abandon", 11) \o <<"about">>

Imp2 == Rep("zoo", 11) \o <<"wrong">>

\* phrases whose words and checksum DirectSecp256k1HdWallet.fromMnemonic accepts
Bip39Valid == {Gen1, Gen2, Imp1, Imp2}

\* first account on m/44'/60'/0'/0/0 with prefix 'creata'
AddressOf(m) ==
  CASE m = Gen1 -> "creata1art"
    [] m = Gen2 -> "creata1vote"
    [] m = Imp1 -> "creata1about"
    [] m = Imp2 -> "creata1wrong"
    [] OTHER    -> "creata1none"

Wallet(m) == [mnemonic |-> m]

\* wallet.serialize(password) / DirectSecp256k1HdWallet.deserialize
SerializeMutantNoPassword(wallet, password) == [mnemonic |-> wallet.mnemonic, pw |-> ""]
Serialize(wallet, password) == [mnemonic |-> wallet.mnemonic, pw |-> password]

Deserializes(serialized, password) == serialized.pw = password

Deserialize(serialized, password) == Wallet(serialized.mnemonic)

AccountsInfo(wallet) ==
  << [address |-> AddressOf(wallet.mnemonic), algo |-> "secp256k1",
      pubkey |-> <<"pub", AddressOf(wallet.mnemonic)>>] >>

StoreError == "Failed to securely store wallet"

LoadError == "Failed to load wallet. Incorrect password or corrupted data."

\* storeWallet(wallet, password); failAt: which of the three writes hits lastError
StoreWallet(st, wallet, password, failAt) ==
  LET s1 == SaveData(st, WALLET_KEY, Serialize(wallet, password), TRUE, password,
                     failAt = 1)
      s2 == SaveData(s1.storage, ACCOUNTS_KEY, AccountsInfo(wallet), TRUE, password,
                     failAt = 2)
      s3 == SaveData(s2.storage, CURRENT_ACCOUNT_KEY, AccountsInfo(wallet)[1].address,
                     TRUE, password, failAt = 3)
  IN IF s1.status # "ok" THEN [status |-> "error", error |-> StoreError, storage |-> s1.storage]
     ELSE IF s2.status # "ok" THEN [status |-> "error", error |-> StoreError, storage |-> s2.storage]
     ELSE IF s3.status # "ok" THEN [status |-> "error", error |-> StoreError, storage |-> s3.storage]
     ELSE [status |-> "ok", storage |-> s3.storage]

\* loadWallet(password)
LoadWallet(st, password) ==
  LET got == GetData(st, WALLET_KEY, TRUE, password) IN
  IF got.status = "pending" THEN Pending
  ELSE IF got.status # "ok" THEN Err(LoadError)
  ELSE IF got.value = Null THEN Err(LoadError)
  ELSE IF Deserializes(got.value, password) THEN Ok(Deserialize(got.value, password))
  ELSE Err(LoadError)

GetAccounts(st, password) == GetData(st, ACCOUNTS_KEY, TRUE, password)

GetCurrentAccount(st, password) == GetData(st, CURRENT_ACCOUNT_KEY, TRUE, password)

SetCurrentAccountMutantFirst(st, address, password, setFails) ==
  SaveData(st, CURRENT_ACCOUNT_KEY, "creata1art", TRUE, password, setFails)
SetCurrentAccount(st, address, password, setFails) ==
  SaveData(st, CURRENT_ACCOUNT_KEY, address, TRUE, password, setFails)

\* removeWallet(); failAt: which of the three removals hits lastError
RemoveWalletMutantClear(st, failAt) ==
  [status |-> IF failAt = 0 THEN "ok" ELSE "error",
   storage |-> IF failAt = 0 THEN EmptyStorage ELSE st]
RemoveWallet(st, failAt) ==
  LET r1 == IF failAt = 1 THEN st ELSE RemoveData(st, WALLET_KEY)
      r2 == IF failAt \in {1, 2} THEN r1 ELSE RemoveData(r1, ACCOUNTS_KEY)
      r3 == IF failAt \in {1, 2, 3} THEN r2 ELSE RemoveData(r2, CURRENT_ACCOUNT_KEY)
  IN [status |-> IF failAt = 0 THEN "ok" ELSE "error", storage |-> r3]

\* hasWallet()
HasWallet(st) ==
  LET got == GetData(st, WALLET_KEY, FALSE, "") IN
  IF got.status = "pending" THEN Pending
  ELSE IF got.status # "ok" THEN Ok(FALSE)
  ELSE Ok(got.value # Null)

----------------------------------------------------------------------------
(* Popup: src/popup/App.js and src/popup/components *)
(* A handler is taken to be callable while its component is mounted.       *)

\* what a user may type as a password
Passwords == {"", "short", "password1", "password2"}

\* password.length
PasswordLength(p) ==
  CASE p = ""          -> 0
    [] p = "short"     -> 5
    [] p = "password1" -> 9
    [] p = "password2" -> 9

NoError == ""

LoadFailed == "Failed to load wallet data. Please try again."

Pages == {"welcome", "create", "import", "login", "dashboard", "send", "receive",
          "stake", "settings"}

ClosedPopup == [open |-> FALSE, loading |-> TRUE, authenticated |-> FALSE,
                currentPage |-> "welcome"]

NoCreate == [step |-> 0, mnemonic |-> <<>>, password |-> ""]

\* the password every screen reads back: storage.creata_session || ''
SessionPassword(st) ==
  IF st["creata_session"].kind = "raw" THEN st["creata_session"].value ELSE ""

\* App useEffect checkWallet
AppMount(st) ==
  LET has == HasWallet(st) IN
  IF has.status = "pending" THEN [ClosedPopup EXCEPT !.open = TRUE]
  ELSE [open |-> TRUE, loading |-> FALSE, authenticated |-> FALSE,
        currentPage |-> IF has.value THEN "login" ELSE "welcome"]

\* the loadData / loadAddress effect a screen runs when it mounts
MountError(page, st, apiOk) ==
  LET pw == SessionPassword(st) IN
  CASE page \in {"dashboard", "send", "stake"} ->
         IF LoadWallet(st, pw).status = "ok" /\ GetCurrentAccount(st, pw).status = "ok"
            /\ apiOk
           THEN NoError ELSE LoadFailed
    [] page = "receive" ->
         IF GetCurrentAccount(st, pw).status = "ok" THEN NoError
         ELSE "Failed to load wallet address. Please try again."
    [] page = "settings" ->
         IF GetAccounts(st, pw).status = "ok" /\ GetCurrentAccount(st, pw).status = "ok"
           THEN NoError ELSE "Failed to load settings. Please try again."
    [] OTHER -> NoError

\* a screen's own loadWallet(password) succeeded
MountLoads(page, st) ==
  /\ page \in {"dashboard", "send", "stake"}
  /\ LoadWallet(st, SessionPassword(st)).status = "ok"

Interactive == popup.open /\ ~popup.loading

PopupOpen ==
  /\ ~popup.open
  /\ popup' = AppMount(storage)
  /\ UNCHANGED <<pageVars, state, now, nextCheck, bgLog, response, portIn, portOut, loaded,
                 storage, attempts, error, create, apiResult>>

PopupClose ==
  /\ popup.open
  /\ popup' = ClosedPopup
  /\ attempts' = 0
  /\ error' = NoError
  /\ create' = NoCreate
  /\ UNCHANGED <<pageVars, state, now, nextCheck, bgLog, response, portIn, portOut, loaded,
                 storage, apiResult>>

\* App.navigateTo(page), with the mount effect of the page it renders
NavigateTo(page, st, apiOk, m) ==
  /\ popup' = [popup EXCEPT !.currentPage = page]
  /\ error' = MountError(page, st, apiOk)
  /\ attempts' = 0
  /\ create' = IF page = "create" THEN [step |-> 1, mnemonic |-> m, password |-> ""]
               ELSE NoCreate
  /\ loaded' = IF MountLoads(page, st) THEN TRUE ELSE loaded

\* Welcome: onCreateWallet / onImportWallet; CreateWallet, ImportWallet: onBack
WelcomeNavigate(page, m) ==
  /\ Interactive
  /\ \/ popup.currentPage = "welcome" /\ page \in {"create", "import"}
     \/ popup.currentPage \in {"create", "import"} /\ page = "welcome"
  /\ NavigateTo(page, storage, TRUE, m)
  /\ UNCHANGED <<pageVars, state, now, nextCheck, bgLog, response, portIn, portOut, storage, apiResult>>

\* Dashboard: onSend / onReceive / onStake / onSettings; those screens: onBack
DashboardNavigate(page, apiOk) ==
  /\ Interactive
  /\ \/ popup.currentPage = "dashboard" /\ page \in {"send", "receive", "stake", "settings"}
     \/ popup.currentPage \in {"send", "receive", "stake", "settings"} /\ page = "dashboard"
  /\ NavigateTo(page, storage, apiOk, <<>>)
  /\ UNCHANGED <<pageVars, state, now, nextCheck, bgLog, response, portIn, portOut, storage, apiResult>>

\* storage failures a write sequence may meet: 0 is none, i is the i-th call
FailPoints == 0..3

\* CreateWallet.handleNextStep; p, c: the password fields, verified: whether the
\* words picked in step 3 match, m2: the phrase generateWallet draws in step 3
CreateNext(p, c, verified, m2, failAt, apiOk) ==
  /\ Interactive /\ popup.currentPage = "create"
  /\ \/ /\ create.step = 1
        /\ p # "" /\ c # ""
        /\ create' = [create EXCEPT !.password = p,
                        !.step = IF PasswordLength(p) >= 8 /\ p = c THEN 2 ELSE 1]
        /\ error' = IF PasswordLength(p) < 8
                      THEN "Password must be at least 8 characters long"
                    ELSE IF p # c THEN "Passwords do not match" ELSE NoError
        /\ UNCHANGED <<popup, storage, attempts, loaded>>
     \/ /\ create.step = 2
        /\ create' = [create EXCEPT !.step = 3]
        /\ UNCHANGED <<popup, storage, attempts, error, loaded>>
     \/ /\ create.step = 3 /\ ~verified
        /\ error' = "Selected words do not match your recovery phrase"
        /\ UNCHANGED <<popup, storage, attempts, create, loaded>>
     \/ /\ create.step = 3 /\ verified
        /\ LET stored == StoreWallet(storage, Wallet(m2), create.password, failAt) IN
           /\ storage' = stored.storage
           /\ IF stored.status = "ok"
                THEN NavigateTo("dashboard", stored.storage, apiOk, <<>>)
                ELSE /\ error' = "Failed to create wallet. Please try again."
                     /\ UNCHANGED <<popup, attempts, create, loaded>>
  /\ UNCHANGED <<pageVars, state, now, nextCheck, bgLog, response, portIn, portOut, apiResult>>

\* CreateWallet: the Back buttons of steps 2 and 3
CreateBack ==
  /\ Interactive /\ popup.currentPage = "create"
  /\ create.step \in {2, 3}
  /\ create' = [create EXCEPT !.step = create.step - 1]
  /\ UNCHANGED <<pageVars, state, now, nextCheck, bgLog, response, portIn, portOut, loaded,
                 storage, popup, attempts, error, apiResult>>

\* a phrase typed into the import box: a sequence of words and blanks
NonSpace(text) == SelectSeq(text, LAMBDA t : t # " ")

RECURSIVE Join(_)
Join(ws) == IF Len(ws) <= 1 THEN ws ELSE <<ws[1], " ">> \o Join(Tail(ws))

ToLower(w) == CASE w = "ABANDON" -> "abandon" [] w = "ABOUT" -> "about" [] OTHER -> w

InvalidPhraseFormat ==
  "Invalid recovery phrase format. Please enter a valid 12/15/18/21/24-word phrase"

\* isValidMnemonic(mnemonic.trim()) of src/utils/helpers.js
IsValidMnemonicMutantAny(text) == NonSpace(text) # <<>>
IsValidMnemonic(text) ==
  /\ NonSpace(text) # <<>>
  /\ Len(NonSpace(text)) \in {12, 15, 18, 21, 24}

\* mnemonic.trim().toLowerCase().replace(/\s+/g, ' ')
CleanMnemonic(text) == Join([i \in 1..Len(NonSpace(text)) |-> ToLower(NonSpace(text)[i])])

\* DirectSecp256k1HdWallet.fromMnemonic: lowercase words, single blanks, checksum
FromMnemonicAccepts(text) == text = Join(NonSpace(text)) /\ NonSpace(text) \in Bip39Valid

ImportPhrases ==
  { Join(Imp1),
    <<" ">> \o Join(Rep("ABANDON", 11)) \o <<" ", " ", "ABOUT", " ">>,
    Join(Rep("abandon", 12)),
    Join(Rep("zoo", 3)),
    <<>> }

\* ImportWallet.handleImportWallet
ImportSubmit(text, p, c, failAt, apiOk) ==
  /\ Interactive /\ popup.currentPage = "import"
  /\ IF ~IsValidMnemonic(text) \/ p = "" \/ PasswordLength(p) < 8 \/ p # c
       THEN /\ error' = IF NonSpace(text) = <<>> THEN "Recovery phrase is required"
                        ELSE IF ~IsValidMnemonic(text) THEN InvalidPhraseFormat
                        ELSE IF p = "" THEN "Password is required"
                        ELSE IF PasswordLength(p) < 8
                          THEN "Password must be at least 8 characters long"
                        ELSE "Passwords do not match"
            /\ UNCHANGED <<popup, storage, attempts, create, loaded>>
     ELSE IF ~FromMnemonicAccepts(CleanMnemonic(text))
       THEN /\ error' = "Failed to import wallet. Please check your recovery phrase and try again."
            /\ UNCHANGED <<popup, storage, attempts, create, loaded>>
     ELSE LET stored == StoreWallet(storage, Wallet(NonSpace(CleanMnemonic(text))), p, failAt) IN
          /\ storage' = stored.storage
          /\ IF stored.status = "ok"
               THEN NavigateTo("dashboard", stored.storage, apiOk, <<>>)
               ELSE /\ error' = "Failed to import wallet. Please check your recovery phrase and try again."
                    /\ UNCHANGED <<popup, attempts, create, loaded>>
  /\ UNCHANGED <<pageVars, state, now, nextCheck, bgLog, response, portIn, portOut, apiResult>>

\* failed unlock attempts the Login screen may count
MaxAttempts == 3

\* Login.handleLogin, and App.handleLogin when loadWallet succeeds
HandleLoginMutantStash(p, apiOk) ==
  /\ Interactive /\ popup.currentPage = "login"
  /\ IF p = ""
       THEN /\ error' = "Password is required"
            /\ UNCHANGED <<popup, attempts, create, loaded, storage>>
     ELSE IF LoadWallet(storage, p).status = "ok"
       THEN /\ storage' = [storage EXCEPT !["creata_session"] = Raw(p)]
            /\ popup' = [popup EXCEPT !.authenticated = TRUE, !.currentPage = "dashboard"]
            /\ error' = MountError("dashboard", storage', apiOk)
            /\ attempts' = 0
            /\ create' = NoCreate
            /\ loaded' = TRUE
     ELSE /\ attempts < MaxAttempts
          /\ attempts' = attempts + 1
          /\ error' = IF attempts >= 2
                        THEN "Wrong password. Please try again or reset your wallet."
                        ELSE "Wrong password. Please try again."
          /\ UNCHANGED <<popup, create, loaded, storage>>
  /\ UNCHANGED <<pageVars, state, now, nextCheck, bgLog, response, portIn, portOut, apiResult>>
HandleLogin(p, apiOk) ==
  /\ Interactive /\ popup.currentPage = "login"
  /\ IF p = ""
       THEN /\ error' = "Password is required"
            /\ UNCHANGED <<popup, attempts, create, loaded>>
     ELSE IF LoadWallet(storage, p).status = "ok"
       THEN /\ popup' = [popup EXCEPT !.authenticated = TRUE, !.currentPage = "dashboard"]
            /\ error' = MountError("dashboard", storage, apiOk)
            /\ attempts' = 0
            /\ create' = NoCreate
            /\ loaded' = TRUE
     ELSE /\ attempts < MaxAttempts
          /\ attempts' = attempts + 1
          /\ error' = IF attempts >= 2
                        THEN "Wrong password. Please try again or reset your wallet."
                        ELSE "Wrong password. Please try again."
          /\ UNCHANGED <<popup, create, loaded>>
  /\ UNCHANGED <<pageVars, state, now, nextCheck, bgLog, response, portIn, portOut, storage, apiResult>>

\* App.handleLogout: the Lock Wallet button of Dashboard and Settings
HandleLogout ==
  /\ Interactive /\ popup.currentPage \in {"dashboard", "settings"}
  /\ popup' = [popup EXCEPT !.authenticated = FALSE, !.currentPage = "login"]
  /\ error' = NoError
  /\ attempts' = 0
  /\ UNCHANGED <<pageVars, state, now, nextCheck, bgLog, response, portIn, portOut, loaded,
                 storage, create, apiResult>>

\* Login: {attempts >= 2 && ( ... Reset Wallet ... )}
ResetLinkShown == Interactive /\ popup.currentPage = "login" /\ attempts >= 2

ResetWording == "Wrong password. Please try again or reset your wallet."

\* Login: the Reset Wallet link, confirmed; chrome.storage.local.clear, then reload
LoginReset ==
  /\ Interactive /\ popup.currentPage = "login"
  /\ attempts >= 2
  /\ storage' = ClearAllData(storage)
  /\ popup' = AppMount(storage')
  /\ attempts' = 0
  /\ error' = NoError
  /\ UNCHANGED <<pageVars, state, now, nextCheck, bgLog, response, portIn, portOut, loaded,
                 create, apiResult>>

\* Settings.handleResetWallet, confirmed: removeWallet, clear, reload
SettingsReset(failAt) ==
  /\ Interactive /\ popup.currentPage = "settings"
  /\ LET removed == RemoveWallet(storage, failAt) IN
     IF removed.status = "ok"
       THEN /\ storage' = ClearAllData(removed.storage)
            /\ popup' = AppMount(storage')
            /\ error' = NoError
       ELSE /\ storage' = removed.storage
            /\ error' = "Failed to reset wallet. Please try again."
            /\ UNCHANGED popup
  /\ UNCHANGED <<pageVars, state, now, nextCheck, bgLog, response, portIn, portOut, loaded,
                 attempts, create, apiResult>>

\* the options of the auto-lock select, in minutes
TimeoutOptions == {5, 15, 30, 60, 120}

\* Settings.handleSessionTimeoutChange
SettingsTimeoutChange(minutes) ==
  /\ Interactive /\ popup.currentPage = "settings"
  /\ storage' = [storage EXCEPT !["creata_session_timeout"] = Raw(minutes)]
  /\ UNCHANGED <<pageVars, state, now, nextCheck, bgLog, response, portIn, portOut, loaded,
                 popup, attempts, error, create, apiResult>>

\* Settings.handleNetworkChange and Dashboard.handleNetworkChange
NetworkChange(n) ==
  /\ Interactive /\ popup.currentPage \in {"dashboard", "settings"}
  /\ storage' = [storage EXCEPT !["creata_active_network"] = Raw(n)]
  /\ UNCHANGED <<pageVars, state, now, nextCheck, bgLog, response, portIn, portOut, loaded,
                 popup, attempts, error, create, apiResult>>

Addresses == {"creata1art", "creata1vote", "creata1about", "creata1wrong", "creata1none"}

\* Settings.handleAccountSwitch
SettingsAccountSwitch(address, setFails) ==
  /\ Interactive /\ popup.currentPage = "settings"
  /\ LET saved == SetCurrentAccount(storage, address, SessionPassword(storage), setFails) IN
     /\ storage' = saved.storage
     /\ error' = IF saved.status = "ok" THEN error
                 ELSE "Failed to switch account. Please try again."
  /\ UNCHANGED <<pageVars, state, now, nextCheck, bgLog, response, portIn, portOut, loaded,
                 popup, attempts, create, apiResult>>

----------------------------------------------------------------------------
(* The extension as a whole: popup, storage and background messages *)

Init ==
  /\ state = InitState
  /\ now = 0
  /\ nextCheck = CHECK_INTERVAL
  /\ bgLog = ""
  /\ response = NoResponse
  /\ portIn = <<>>
  /\ portOut = <<>>
  /\ storage = EmptyStorage
  /\ popup = ClosedPopup
  /\ attempts = 0
  /\ error = NoError
  /\ create = NoCreate
  /\ apiResult = [op |-> "none"]
  /\ pageRequests = <<>>
  /\ windowQueue = <<>>
  /\ loaded = FALSE

\* the popup screens
PopupNext ==
  \/ PopupOpen
  \/ PopupClose
  \/ \E page \in Pages, m \in GeneratedMnemonics : WelcomeNavigate(page, m)
  \/ \E page \in Pages, apiOk \in BOOLEAN : DashboardNavigate(page, apiOk)
  \/ \E p \in Passwords, c \in Passwords, verified \in BOOLEAN,
        m2 \in GeneratedMnemonics, apiOk \in BOOLEAN :
       CreateNext(p, c, verified, m2, 0, apiOk)
  \/ CreateBack
  \/ \E text \in ImportPhrases, p \in Passwords, c \in Passwords, apiOk \in BOOLEAN :
       ImportSubmit(text, p, c, 0, apiOk)
  \/ \E p \in Passwords, apiOk \in BOOLEAN : HandleLogin(p, apiOk)
  \/ HandleLogout
  \/ LoginReset
  \/ \E failAt \in FailPoints : SettingsReset(failAt)
  \/ \E minutes \in {5, 120} : SettingsTimeoutChange(minutes)
  \/ NetworkChange("testnet")
  \/ \E a \in Addresses, setFails \in BOOLEAN : SettingsAccountSwitch(a, setFails)

Next ==
  \/ PopupNext
  \/ \E type \in {"UNLOCK_WALLET", "LOCK_WALLET"} : OnMessage(type, "none")
  \/ ResponseDelivered

Spec == Init /\ [][Next]_vars

----------------------------------------------------------------------------
(* The background alone, with its clock at 1 ms resolution *)

SessionNext ==
  \/ \E type \in {"GET_STATE", "UNLOCK_WALLET", "LOCK_WALLET"} : OnMessage(type, "none")
  \/ ResponseDelivered
  \/ \E d \in TickSteps : Tick(d)
  \/ PeriodicCheck

SpecSession == Init /\ [][SessionNext]_vars

(* The background's two listeners and the content script, within the first minute *)

MessagesNext ==
  \/ \E type \in RuntimeTypes, n \in NetworkArgs : OnMessage(type, n)
  \/ ResponseDelivered
  \/ \E method \in ProviderMethods : ProviderRequest(method)
  \/ ContentScriptPost
  \/ OnPortMessage
  \/ ContentScriptForward
  \/ PageHandleResponse
  \/ Tick(CHECK_INTERVAL)

SpecMessages == Init /\ [][MessagesNext]_vars

(* A web page calling the injected provider, with the relay and the page's timers *)

ProviderNext ==
  \/ \E type \in {"UNLOCK_WALLET", "LOCK_WALLET"} : OnMessage(type, "none")
  \/ ResponseDelivered
  \/ \E method \in ProviderMethods : ProviderRequest(method)
  \/ \E data \in ForgedResponses : PageScriptPost(data)
  \/ ContentScriptPost
  \/ OnPortMessage
  \/ ContentScriptForward
  \/ PageHandleResponse
  \/ \E i \in 1..MaxRequests : RequestTimeout(i)
  \/ Tick(RequestTimeouts["requestAccounts"])

SpecProvider == Init /\ [][ProviderNext]_vars

(* One user setting up a wallet and the auto-lock delay, and the background's clock *)

TimeoutNext ==
  \/ PopupOpen
  \/ \E m \in GeneratedMnemonics : WelcomeNavigate("create", m)
  \/ \E m2 \in GeneratedMnemonics : CreateNext("password1", "password1", TRUE, m2, 0, TRUE)
  \/ \E page \in {"settings", "dashboard"} : DashboardNavigate(page, TRUE)
  \/ \E minutes \in TimeoutOptions : SettingsTimeoutChange(minutes)
  \/ OnMessage("UNLOCK_WALLET", "none")
  \/ ResponseDelivered
  \/ Tick(CHECK_INTERVAL)
  \/ PeriodicCheck

SpecTimeout == Init /\ [][TimeoutNext]_vars

(* The background's two listeners and its interval callback over a full session *)

\* a request the page's script posts to the window for the content script
AccountsRequest ==
  [type |-> "CREATA_WALLET_REQUEST", message |-> [type |-> "REQUEST_ACCOUNTS"]]

\* a page that awaits the reply to one request before it posts the next
PageRequestsAccounts ==
  /\ windowQueue = <<>> /\ portIn = <<>> /\ portOut = <<>>
  /\ PageScriptPost(AccountsRequest)

FrameNext ==
  \/ \E type \in RuntimeTypes, n \in {"testnet", "ropsten"} : OnMessage(type, n)
  \/ ResponseDelivered
  \/ PageRequestsAccounts
  \/ ContentScriptPost
  \/ OnPortMessage
  \/ ContentScriptForward
  \/ PageHandleResponse
  \/ Tick(CHECK_INTERVAL)
  \/ PeriodicCheck

SpecFrame == Init /\ [][FrameNext]_vars

(* One user importing a wallet from a recovery phrase *)

\* what the user may type into the Confirm Password field
Confirmations == {"password1", "password2"}

ImportNext ==
  \/ PopupOpen
  \/ PopupClose
  \/ \E page \in {"import", "welcome"} : WelcomeNavigate(page, <<>>)
  \/ \E text \in ImportPhrases, p \in Passwords, c \in Confirmations, failAt \in FailPoints :
       ImportSubmit(text, p, c, failAt, TRUE)
  \/ \E page \in {"settings", "dashboard"} : DashboardNavigate(page, TRUE)
  \/ SettingsReset(0)
  \/ HandleLogout
  \/ \E p \in Passwords : HandleLogin(p, TRUE)
  \/ LoginReset

SpecImport == Init /\ [][ImportNext]_vars

----------------------------------------------------------------------------
(* The keyring's exports called directly, with any arguments *)

ApiFrame == UNCHANGED <<pageVars, state, now, nextCheck, bgLog, response, portIn, portOut, loaded,
                        popup, attempts, error, create>>

ApiStoreWallet(m, p, failAt) ==
  /\ LET stored == StoreWallet(storage, Wallet(m), p, failAt) IN
     /\ storage' = stored.storage
     /\ apiResult' = [op |-> "storeWallet", status |-> stored.status]
  /\ ApiFrame

ApiLoadWallet(p) ==
  /\ apiResult' = [op |-> "loadWallet", result |-> LoadWallet(storage, p)]
  /\ UNCHANGED storage
  /\ ApiFrame

ApiGetAccounts(p) ==
  /\ apiResult' = [op |-> "getAccounts", result |-> GetAccounts(storage, p)]
  /\ UNCHANGED storage
  /\ ApiFrame

ApiGetCurrentAccount(p) ==
  /\ apiResult' = [op |-> "getCurrentAccount", result |-> GetCurrentAccount(storage, p)]
  /\ UNCHANGED storage
  /\ ApiFrame

ApiSetCurrentAccount(a, p, setFails) ==
  /\ LET saved == SetCurrentAccount(storage, a, p, setFails) IN
     /\ storage' = saved.storage
     /\ apiResult' = [op |-> "setCurrentAccount", status |-> saved.status]
  /\ ApiFrame

ApiRemoveWallet(failAt) ==
  /\ LET removed == RemoveWallet(storage, failAt) IN
     /\ storage' = removed.storage
     /\ apiResult' = [op |-> "removeWallet", status |-> removed.status]
  /\ ApiFrame

ApiHasWallet ==
  /\ apiResult' = [op |-> "hasWallet", result |-> HasWallet(storage)]
  /\ UNCHANGED storage
  /\ ApiFrame

\* chrome.storage.local.clear(), the reset of Login and Settings
ApiClear ==
  /\ storage' = ClearAllData(storage)
  /\ apiResult' = [op |-> "clear", status |-> "ok"]
  /\ ApiFrame

\* chrome.storage.local.set({ creata_active_network }), as Settings and Dashboard do
ApiSetNetwork(n) ==
  /\ storage' = [storage EXCEPT !["creata_active_network"] = Raw(n)]
  /\ apiResult' = [op |-> "setNetwork", status |-> "ok"]
  /\ ApiFrame

\* the stored bytes of one wallet record are altered outside the extension
TamperRecord(k) ==
  /\ storage[k].kind = "enc"
  /\ storage' = [storage EXCEPT ![k] = Corrupted]
  /\ apiResult' = [op |-> "none"]
  /\ ApiFrame

KeyringNext ==
  \/ \E m \in {Gen1, Imp1}, p \in Passwords, failAt \in FailPoints : ApiStoreWallet(m, p, failAt)
  \/ \E p \in Passwords : ApiLoadWallet(p)
  \/ \E p \in Passwords : ApiGetAccounts(p)
  \/ \E p \in Passwords : ApiGetCurrentAccount(p)
  \/ \E a \in {"creata1art", "creata1about", "creata1none"}, p \in Passwords,
        setFails \in BOOLEAN : ApiSetCurrentAccount(a, p, setFails)
  \/ \E failAt \in FailPoints : ApiRemoveWallet(failAt)
  \/ ApiHasWallet
  \/ ApiClear
  \/ ApiSetNetwork("testnet")

SpecKeyring == Init /\ [][KeyringNext]_vars

(* The storage module's exports called directly on two string-valued keys *)

StoreKeys == {"creata_active_network", CURRENT_ACCOUNT_KEY}

StoreValues == {"", "testnet", "creata1art"}

ApiSaveData(key, value, secure, password, setFails) ==
  /\ LET saved == SaveData(storage, key, value, secure, password, setFails) IN
     /\ storage' = saved.storage
     /\ apiResult' = [op |-> "saveData", status |-> saved.status,
                      error |-> IF saved.status = "ok" THEN "" ELSE saved.error]
  /\ ApiFrame

ApiGetData(key, secure, password) ==
  /\ apiResult' = [op |-> "getData", result |-> GetData(storage, key, secure, password)]
  /\ UNCHANGED storage
  /\ ApiFrame

ApiRemoveData(key) ==
  /\ storage' = RemoveData(storage, key)
  /\ apiResult' = [op |-> "removeData", status |-> "ok"]
  /\ ApiFrame

StorageNext ==
  \/ \E key \in StoreKeys, value \in StoreValues, secure \in BOOLEAN,
        password \in {"", "short", "password1"}, setFails \in BOOLEAN :
       ApiSaveData(key, value, secure, password, setFails)
  \/ \E key \in StoreKeys, secure \in BOOLEAN, password \in {"", "short", "password1"} :
       ApiGetData(key, secure, password)
  \/ \E key \in StoreKeys : ApiRemoveData(key)
  \/ ApiClear

SpecStorage == Init /\ [][StorageNext]_vars

(* A stored wallet whose records may be altered, read by the keyring and by Login *)

TamperNext ==
  \/ PopupOpen
  \/ WelcomeNavigate("import", <<>>)
  \/ \E p \in {"password1", "password2"} : ImportSubmit(Join(Imp1), p, p, 0, TRUE)
  \/ HandleLogout
  \/ \E p \in Passwords : HandleLogin(p, TRUE)
  \/ \E k \in {WALLET_KEY, ACCOUNTS_KEY} : TamperRecord(k)
  \/ \E p \in Passwords : ApiLoadWallet(p)
  \/ \E p \in Passwords : ApiGetAccounts(p)

SpecTamper == Init /\ [][TamperNext]_vars

----------------------------------------------------------------------------
(* Properties *)

WalletRecordKeys == {WALLET_KEY, ACCOUNTS_KEY, CURRENT_ACCOUNT_KEY}

TimeoutLine == "Session timeout, locking wallet"

\* C1: isUnlocked is true only if a loadWallet(password) call succeeded since the
\* wallet was last locked; at process start it is false
C1_UnlockOnlyAfterDecryption == state.isUnlocked => loaded

\* C2: each of creata_wallet, creata_accounts and creata_current_account is absent
\* or an encrypted blob made by encrypt with a non-empty password, never plain JSON
C2_WalletRecordsEncrypted ==
  \A k \in WalletRecordKeys :
    storage[k] = Absent \/ (storage[k].kind = "enc" /\ storage[k].pw # "")

C2_Witness ==
  /\ apiResult = [op |-> "setCurrentAccount", status |-> "ok"]
  /\ \A k \in WalletRecordKeys : storage[k].kind = "enc"

C4_PeriodicCheck ==
  [][nextCheck' # nextCheck =>
       /\ (state.isUnlocked /\ now - state.lastActivity > SESSION_TIMEOUT)
            => ~state'.isUnlocked
       /\ (state.isUnlocked /\ now - state.lastActivity <= SESSION_TIMEOUT)
            => state' = state
       /\ ~state.isUnlocked => state' = state]_vars

C4_Witness ==
  /\ ~state.isUnlocked
  /\ bgLog = TimeoutLine
  /\ now - state.lastActivity = SESSION_TIMEOUT + 1

\* C5: an unlocked wallet that receives no message is locked no later than
\* threshold + 60 s after the last message, and a locked wallet becomes unlocked
\* only by the handling of an UNLOCK_WALLET message
C5_AutoRelock ==
  /\ [](state.isUnlocked => now - state.lastActivity <= SESSION_TIMEOUT + CHECK_INTERVAL)
  /\ [][(~state.isUnlocked /\ state'.isUnlocked) =>
          /\ response = NoResponse
          /\ response' = [kind |-> "plain", success |-> TRUE]
          /\ state'.lastActivity = now]_vars

C5_Witness ==
  /\ ~state.isUnlocked
  /\ bgLog = TimeoutLine
  /\ now - state.lastActivity = SESSION_TIMEOUT + CHECK_INTERVAL

\* the threshold the user configured in Settings, in ms; 30 minutes when none is set
ConfiguredTimeout ==
  IF storage["creata_session_timeout"].kind = "raw"
    THEN storage["creata_session_timeout"].value * 60 * 1000
    ELSE SESSION_TIMEOUT

\* C6: a periodic check locks an unlocked wallet whose inactivity exceeds the
\* number of minutes stored under creata_session_timeout (30 when none is stored)
C6_ConfiguredTimeoutLocks ==
  [][(nextCheck' # nextCheck /\ state.isUnlocked
        /\ now - state.lastActivity > ConfiguredTimeout)
       => ~state'.isUnlocked]_vars

\* C7: the handling of every inbound message, a runtime message of any type or a
\* REQUEST_ACCOUNTS on the content-script port, sets lastActivity to the current time
C7_EveryMessageTouches ==
  [][(\/ response = NoResponse /\ response' # NoResponse
      \/ /\ portIn # <<>> /\ portIn' = Tail(portIn)
         /\ Head(portIn).type = "REQUEST_ACCOUNTS")
       => state'.lastActivity = now]_vars

\* C8: when the user presses Lock Wallet on the Dashboard or in Settings, the
\* background's isUnlocked is false afterwards
C8_LogoutLocksBackground ==
  [][(popup.currentPage \in {"dashboard", "settings"} /\ popup'.currentPage = "login")
       => ~state'.isUnlocked]_vars

\* C9: after a wallet reset has cleared the storage, the background's isUnlocked
\* is false
C9_ResetLocksBackground ==
  [][(storage[WALLET_KEY] # Absent /\ storage' = EmptyStorage)
       => ~state'.isUnlocked]_vars

\* C10: the handling of a REQUEST_ACCOUNTS on the port posts exactly one reply, the
\* accounts list if isUnlocked is true and the error 'Wallet is locked' otherwise,
\* and leaves isUnlocked unchanged
C10_RequestAccountsReply ==
  [][(portIn # <<>> /\ portIn' = Tail(portIn) /\ Head(portIn).type = "REQUEST_ACCOUNTS")
       => /\ portOut' = Append(portOut, IF state.isUnlocked
                                          THEN [type |-> "ACCOUNTS_RESPONSE",
                                                accounts |-> <<"creata12345...">>]
                                          ELSE [type |-> "ERROR",
                                                error |-> "Wallet is locked"])
          /\ state'.isUnlocked = state.isUnlocked]_vars

C10_Witness ==
  /\ portOut = <<[type |-> "ERROR", error |-> "Wallet is locked"]>>
  /\ ~state.isUnlocked
  /\ state.lastActivity < now
  /\ bgLog = "Message from content script:"

\* C11: when the background's reply to a requestAccounts call reaches the page
\* before the call's 30 s timer fires, the call resolves with the accounts list if
\* the reply is ACCOUNTS_RESPONSE and rejects with 'Wallet is locked' if it is the
\* locked error
C11_ReplySettlesRequest ==
  [][(/\ windowQueue # <<>>
      /\ windowQueue' = Tail(windowQueue)
      /\ Head(windowQueue).type = "CREATA_WALLET_RESPONSE"
      /\ Head(windowQueue).message \in {AccountsResponse, LockedError})
       => \A i \in 1..Len(pageRequests) :
            (/\ pageRequests[i].method = "requestAccounts"
             /\ pageRequests[i].status = "pending"
             /\ pageRequests[i].timer
             /\ \A j \in 1..Len(pageRequests) : j # i => ~pageRequests[j].listening)
              => IF Head(windowQueue).message = AccountsResponse
                   THEN /\ pageRequests'[i].status = "resolved"
                        /\ pageRequests'[i].value =
                             [kind |-> "value", value |-> <<"creata12345...">>]
                   ELSE /\ pageRequests'[i].status = "rejected"
                        /\ pageRequests'[i].value =
                             [kind |-> "error", message |-> "Wallet is locked"]]_vars

\* C12: a pending page request still has its timer, set 30 s (requestAccounts,
\* signMessage) or 60 s (sendTransaction) after the call, and never outlives it;
\* when the timer fires the listener is removed and a pending request is rejected
\* with 'Request timeout'; a settled request never changes its outcome
C12_RequestsSettle ==
  /\ [](\A i \in 1..Len(pageRequests) :
          /\ pageRequests[i].due = pageRequests[i].requestId.str
               + (IF pageRequests[i].method = "sendTransaction" THEN 60000 ELSE 30000)
          /\ pageRequests[i].status = "pending"
               => (pageRequests[i].timer /\ now <= pageRequests[i].due))
  /\ [][\A i \in 1..Len(pageRequests) :
          /\ (pageRequests[i].timer /\ ~pageRequests'[i].timer)
               => /\ now >= pageRequests[i].due
                  /\ ~pageRequests'[i].listening
                  /\ pageRequests[i].status = "pending"
                       => /\ pageRequests'[i].status = "rejected"
                          /\ pageRequests'[i].value =
                               [kind |-> "error", message |-> "Request timeout"]
          /\ pageRequests[i].status # "pending"
               => /\ pageRequests'[i].status = pageRequests[i].status
                  /\ pageRequests'[i].value = pageRequests[i].value]_vars

C12_Witness ==
  \E i \in 1..Len(pageRequests) :
    /\ pageRequests[i].method = "sendTransaction"
    /\ pageRequests[i].status = "rejected"
    /\ pageRequests[i].value = [kind |-> "error", message |-> "Request timeout"]
    /\ ~pageRequests[i].listening
    /\ now = pageRequests[i].requestId.str + 60000

\* C13: the background sends a reply that holds an account address, the
\* ACCOUNTS_RESPONSE on the port or the reply to CONNECT_SITE, only while
\* isUnlocked is true
C13_AddressOnlyWhenUnlocked ==
  [][(\/ /\ response = NoResponse /\ response' # NoResponse
         /\ "address" \in DOMAIN response'
      \/ /\ Len(portOut') = Len(portOut) + 1
         /\ portOut'[Len(portOut')].type = "ACCOUNTS_RESPONSE")
       => (state.isUnlocked /\ state'.isUnlocked)]_vars

\* C14: SWITCH_NETWORK with mainnet or testnet sets state.network to it and replies
\* success; with any other or no network it replies failure with an error and leaves
\* state.network; it never changes isUnlocked; state.network is always one of the two
C14_SwitchNetwork ==
  /\ [](state.network \in {"mainnet", "testnet"})
  /\ [][\A n \in NetworkArgs :
          OnMessage("SWITCH_NETWORK", n)
            => /\ state'.isUnlocked = state.isUnlocked
               /\ n \in {"mainnet", "testnet"}
                    => /\ state'.network = n
                       /\ response' = [kind |-> "plain", success |-> TRUE]
               /\ n \notin {"mainnet", "testnet"}
                    => /\ state'.network = state.network
                       /\ response'.success = FALSE
                       /\ "error" \in DOMAIN response']_vars

C14_Witness ==
  /\ state.network = "testnet"
  /\ response = [kind |-> "error", success |-> FALSE, error |-> "Invalid network"]

\* C15: right after storeWallet(w, p) succeeds, and for as long as the storage is
\* retained, loadWallet(p) yields a wallet with w's first address, getAccounts(p)
\* w's public account list and getCurrentAccount(p) w's first address
C15_StoreLoadRoundTrip ==
  [][\A m \in {Gen1, Imp1}, p \in Passwords \ {""}, failAt \in {0} :
       (apiResult' = [op |-> "storeWallet", status |-> "ok"]
          /\ ApiStoreWallet(m, p, failAt))
         => /\ LoadWallet(storage', p).status = "ok"
            /\ AccountsInfo(LoadWallet(storage', p).value)[1].address = AddressOf(m)
            /\ GetAccounts(storage', p) = Ok(AccountsInfo(Wallet(m)))
            /\ GetCurrentAccount(storage', p) = Ok(AddressOf(m))]_vars

C15_Witness ==
  /\ apiResult = [op |-> "storeWallet", status |-> "ok"]
  /\ storage[WALLET_KEY].kind = "enc"
  /\ storage[WALLET_KEY].pw = "password1"
  /\ LoadWallet(storage, "password1").status = "ok"

\* C16: for records stored under a password W, loadWallet, getAccounts and
\* getCurrentAccount called with any other password, the empty one included, fail
\* with an error, return no value and leave the storage unchanged
C16_WrongPasswordFails ==
  [][\A p \in Passwords :
       /\ (storage[WALLET_KEY].kind = "enc" /\ storage[WALLET_KEY].pw # p
             /\ apiResult'.op = "loadWallet" /\ ApiLoadWallet(p))
            => (apiResult'.result.status = "error" /\ storage' = storage)
       /\ (storage[ACCOUNTS_KEY].kind = "enc" /\ storage[ACCOUNTS_KEY].pw # p
             /\ apiResult'.op = "getAccounts" /\ ApiGetAccounts(p))
            => (apiResult'.result.status = "error" /\ storage' = storage)
       /\ (storage[CURRENT_ACCOUNT_KEY].kind = "enc"
             /\ storage[CURRENT_ACCOUNT_KEY].pw # p
             /\ apiResult'.op = "getCurrentAccount" /\ ApiGetCurrentAccount(p))
            => (apiResult'.result.status = "error" /\ storage' = storage)]_vars

C16_Witness ==
  /\ apiResult.op = "getAccounts"
  /\ apiResult.result.status = "error"
  /\ storage[ACCOUNTS_KEY].kind = "enc"
  /\ storage[ACCOUNTS_KEY].pw = "password1"

\* what loadWallet gives for a wrong password on a stored wallet
WrongPasswordOutcomes ==
  UNION { { LoadWallet(StoreWallet(EmptyStorage, Wallet(Gen1), w, 0).storage, p) :
              p \in Passwords \ {w} } : w \in {"password1", "password2"} }

\* C17: loadWallet with no creata_wallet record fails, and its failure differs from
\* the failure of a wrong password on a stored wallet
C17_NoWalletDistinguished ==
  [][\A p \in Passwords :
       (storage[WALLET_KEY] = Absent /\ apiResult'.op = "loadWallet" /\ ApiLoadWallet(p))
         => /\ apiResult'.result.status = "error"
            /\ apiResult'.result \notin WrongPasswordOutcomes]_vars

\* C18: for a stored record and a non-empty password that does not open it, getData
\* and loadWallet give the same outcome as they give when the record's ciphertext is
\* corrupted, and Login shows the same message in both cases
C18_NoPasswordOracle ==
  /\ [](\A k \in WalletRecordKeys, p \in Passwords \ {""} :
          (storage[k].kind = "enc" /\ storage[k].pw # p)
            => LET tampered == [storage EXCEPT ![k] = Corrupted] IN
               /\ GetData(storage, k, TRUE, p) = GetData(tampered, k, TRUE, p)
               /\ GetData(storage, k, TRUE, p).status = "error"
               /\ k = WALLET_KEY => LoadWallet(storage, p) = LoadWallet(tampered, p))
  /\ [][\A p \in Passwords \ {""} :
          (/\ HandleLogin(p, TRUE)
           /\ \/ storage[WALLET_KEY] = Corrupted
              \/ storage[WALLET_KEY].kind = "enc" /\ storage[WALLET_KEY].pw # p)
            => error' = IF attempts >= 2
                          THEN "Wrong password. Please try again or reset your wallet."
                          ELSE "Wrong password. Please try again."]_vars

C18_Witness ==
  /\ storage[WALLET_KEY] = Corrupted
  /\ popup.currentPage = "login"
  /\ error = "Wrong password. Please try again."
  /\ attempts = 1

\* C19: hasWallet completes with false when no creata_wallet record is present and
\* with true when one is present
C19_HasWalletCompletes ==
  [][(apiResult'.op = "hasWallet" /\ ApiHasWallet) => apiResult'.result = Ok(storage[WALLET_KEY] # Absent)]_vars

\* C20: after removeWallet completes none of the three wallet records is present,
\* loadWallet fails and getAccounts and getCurrentAccount give null for any password,
\* a second removeWallet succeeds and changes nothing, and the other keys are untouched
C20_RemoveWallet ==
  [][(apiResult' = [op |-> "removeWallet", status |-> "ok"] /\ ApiRemoveWallet(0))
       => /\ \A k \in WalletRecordKeys : storage'[k] = Absent
          /\ \A k \in StorageKeys \ WalletRecordKeys : storage'[k] = storage[k]
          /\ \A p \in Passwords :
               /\ LoadWallet(storage', p).status = "error"
               /\ GetAccounts(storage', p) = Ok(Null)
               /\ GetCurrentAccount(storage', p) = Ok(Null)
          /\ RemoveWallet(storage', 0) = [status |-> "ok", storage |-> storage']]_vars

C20_Witness ==
  /\ apiResult = [op |-> "removeWallet", status |-> "ok"]
  /\ \A k \in WalletRecordKeys : storage[k] = Absent
  /\ storage["creata_active_network"] = Raw("testnet")

C22_PointerInAccountList ==
  (storage[CURRENT_ACCOUNT_KEY].kind = "enc" /\ storage[ACCOUNTS_KEY].kind = "enc")
    => \E i \in 1..Len(JSONParse(Decrypt(storage[ACCOUNTS_KEY], storage[ACCOUNTS_KEY].pw))) :
         JSONParse(Decrypt(storage[ACCOUNTS_KEY], storage[ACCOUNTS_KEY].pw))[i].address
           = JSONParse(Decrypt(storage[CURRENT_ACCOUNT_KEY], storage[CURRENT_ACCOUNT_KEY].pw))

\* C23: saveData with secure = true and no password fails with the missing-password
\* error and leaves the storage as it was; getData with secure = true and no password
\* on a present key fails and gives no value
C23_MissingPassword ==
  [][/\ \A key \in StoreKeys, value \in StoreValues, setFails \in BOOLEAN :
          (apiResult'.op = "saveData" /\ ApiSaveData(key, value, TRUE, "", setFails))
            => /\ apiResult'.status = "error"
               /\ apiResult'.error = "Password is required for secure storage"
               /\ storage' = storage
     /\ \A key \in StoreKeys :
          (apiResult'.op = "getData" /\ storage[key] # Absent
             /\ ApiGetData(key, TRUE, ""))
            => /\ apiResult'.result.status = "error"
               /\ apiResult'.result.error = "Password is required for secure retrieval"
               /\ storage' = storage]_vars

C23_Witness ==
  /\ apiResult = [op |-> "saveData", status |-> "error",
                  error |-> "Password is required for secure storage"]
  /\ storage[CURRENT_ACCOUNT_KEY].kind = "enc"
  /\ storage["creata_active_network"].kind = "json"

C25_ImportValidation ==
  [][popup.currentPage = "import" =>
       \A text \in ImportPhrases, p \in Passwords, c \in Confirmations,
          failAt \in FailPoints :
         ImportSubmit(text, p, c, failAt, TRUE)
           => /\ Len(NonSpace(text)) \notin {12, 15, 18, 21, 24}
                 => /\ storage' = storage
                    /\ popup' = popup
                    /\ error' \in {"Recovery phrase is required", InvalidPhraseFormat}
              /\ storage' # storage
                 => /\ Len(NonSpace(text)) \in {12, 15, 18, 21, 24}
                    /\ CleanMnemonic(text) = Join(NonSpace(CleanMnemonic(text)))
                    /\ \A i \in 1..Len(NonSpace(text)) :
                         NonSpace(CleanMnemonic(text))[i] = ToLower(NonSpace(text)[i])
                    /\ storage'[WALLET_KEY]
                         = Encrypt(JSONStringify(
                             Serialize(Wallet(NonSpace(CleanMnemonic(text))), p)), p)]_vars

C25_Witness ==
  /\ popup.open /\ popup.currentPage = "import"
  /\ error = InvalidPhraseFormat
  /\ storage = EmptyStorage

\* C26: on the Login screen the Reset Wallet link and the reset wording of the error
\* are shown only when at least 3 unlock attempts have failed since the screen was shown
C26_ResetAfterThreeFailures ==
  (ResetLinkShown \/ (popup.currentPage = "login" /\ error = ResetWording))
    => attempts >= 3

\* C27: the wallet that storeWallet persists at the end of step 3 of Create Wallet is
\* the wallet of the recovery phrase generated on mount and shown in step 2
C27_StoredPhraseIsShownPhrase ==
  [][(popup.currentPage = "create" /\ create.step = 3
        /\ storage'[WALLET_KEY] # storage[WALLET_KEY])
       => storage'[WALLET_KEY]
            = Encrypt(JSONStringify(Serialize(Wallet(create.mnemonic), create.password)),
                      create.password)]_vars

\* C28: with the API answering, the Dashboard reached after a successful unlock, create
\* or import loads its wallet data and does not show 'Failed to load wallet data'
C28_DashboardLoads ==
  (Interactive /\ popup.currentPage = "dashboard") => error # LoadFailed

\* C29: the creata_wallet record is present only if creata_accounts and
\* creata_current_account are present too and all three decrypt under one password
C29_VaultRecordsConsistent ==
  storage[WALLET_KEY] # Absent
    => \E p \in Passwords : \A k \in WalletRecordKeys :
         storage[k].kind = "enc" /\ Decrypts(storage[k], p)

\* C30: isUnlocked changes only by UNLOCK_WALLET (to true), LOCK_WALLET (to false) and
\* the interval callback on an expired session (to false); the other runtime message
\* types and port messages leave it as it is; an unknown runtime type is answered
\* {success: false, error: 'Unknown message type'}; LOCK_WALLET and UNLOCK_WALLET are
\* idempotent and leave state.network as it is
C30_HandlerFrame ==
  [][/\ state'.isUnlocked # state.isUnlocked
          => \/ state'.isUnlocked /\ OnMessage("UNLOCK_WALLET", "testnet")
             \/ ~state'.isUnlocked /\ OnMessage("LOCK_WALLET", "testnet")
             \/ ~state'.isUnlocked /\ SessionExpired(state, now) /\ PeriodicCheck
     /\ \A type \in RuntimeTypes \ {"UNLOCK_WALLET", "LOCK_WALLET"},
           n \in {"testnet", "ropsten"} :
          OnMessage(type, n) => state'.isUnlocked = state.isUnlocked
     /\ OnPortMessage => state' = state
     /\ \A type \in RuntimeTypes \ {"GET_STATE", "UNLOCK_WALLET", "LOCK_WALLET",
                                     "SWITCH_NETWORK", "CONNECT_SITE"},
           n \in {"testnet", "ropsten"} :
          OnMessage(type, n)
            => response' = [kind |-> "error", success |-> FALSE,
                            error |-> "Unknown message type"]
     /\ \A type \in {"UNLOCK_WALLET", "LOCK_WALLET"}, n \in {"testnet", "ropsten"} :
          OnMessage(type, n)
            => /\ state'.network = state.network
               /\ state'.isUnlocked = (type = "UNLOCK_WALLET")
               /\ Dispatch(state', type, n) = state'
               /\ Reply(state', type, n) = response']_vars

C30_Witness ==
  /\ bgLog = TimeoutLine
  /\ ~state.isUnlocked
  /\ state.network = "testnet"
  /\ response = [kind |-> "error", success |-> FALSE, error |-> "Unknown message type"]

====
